---- MODULE Spec2Model ----
(***************************************************************************)
(* A model of src/utils/preprocessor.py (class Preprocessor): the          *)
(* hierarchy-file parser generate_hierarchy_segment, the dataset builder   *)
(* preprocessing_data, the cache gate preprocessor and the splitter        *)
(* data_splitting.                                                         *)
(*                                                                         *)
(* Text is a sequence of one-character strings, so that slicing, lower()   *)
(* and split(" > ") act on characters as they do in Python.  A node name   *)
(* is such a sequence too (the empty name is << >>).                       *)
(***************************************************************************)
EXTENDS Integers, Sequences, FiniteSets, TLC

\* ------------------------------------------------------------------ bounds
MaxLines == 2       \* lines of a hierarchy file given to the parser alone
MaxNodes == 3       \* nodes on one such line
MaxTreeLines == 2   \* lines of the hierarchy file read by a build
MaxRows == 2        \* rows of the input table read by a build
MaxN == 6           \* size of a collection given to data_splitting alone

\* ------------------------------------------------------------ text helpers
NL == "\n"
Delim == <<" ", ">", " ">>

\* str.lower() on one character
LowerChar(c) == CASE c = "A" -> "a" [] c = "B" -> "b" [] c = "C" -> "c" [] OTHER -> c

\* str.lower()
Lower(s) == [i \in 1..Len(s) |-> LowerChar(s[i])]

\* s[:-1]: everything but the last character, whatever that character is
ChopLast(s) == IF Len(s) = 0 THEN << >> ELSE SubSeq(s, 1, Len(s) - 1)

\* does the delimiter " > " start at position i of s
DelimAt(s, i) == i + 2 <= Len(s) /\ SubSeq(s, i, i + 2) = Delim

\* str.split(" > "): cut at every occurrence of the delimiter, left to right
RECURSIVE Split(_)
Split(s) ==
    IF \E i \in 1..Len(s) : DelimAt(s, i)
    THEN LET i == CHOOSE k \in 1..Len(s) :
                      DelimAt(s, k) /\ \A j \in 1..(k - 1) : ~DelimAt(s, j)
         IN  <<SubSeq(s, 1, i - 1)>> \o Split(SubSeq(s, i + 3, Len(s)))
    ELSE <<s>>

\* " > ".join(nodes)
RECURSIVE Join(_)
Join(nodes) ==
    IF Len(nodes) = 0 THEN << >>
    ELSE IF Len(nodes) = 1 THEN nodes[1]
    ELSE nodes[1] \o Delim \o Join(Tail(nodes))

\* iterating an open text file: each item is a line with its "\n", except
\* that a final line without "\n" comes as it is
RECURSIVE FileLines(_)
FileLines(text) ==
    IF Len(text) = 0 THEN << >>
    ELSE IF \E i \in 1..Len(text) : text[i] = NL
    THEN LET i == CHOOSE k \in 1..Len(text) :
                      text[k] = NL /\ \A j \in 1..(k - 1) : text[j] # NL
         IN  <<SubSeq(text, 1, i)>> \o FileLines(SubSeq(text, i + 1, Len(text)))
    ELSE <<text>>

\* the set of the items of a sequence
Range(f) == {f[i] : i \in DOMAIN f}

\* all sequences over S of length lo..hi
SeqsOf(S, lo, hi) == UNION {[1..n -> S] : n \in lo..hi}

\* all orderings of a finite set, as sequences
RECURSIVE Perms(_)
Perms(S) ==
    IF S = {} THEN {<< >>}
    ELSE UNION {{<<x>> \o p : p \in Perms(S \ {x})} : x \in S}

\* the text of a file holding the given lines (each a list of node names),
\* with or without a newline after the last line
RECURSIVE RenderLines(_)
RenderLines(lines) ==
    IF Len(lines) = 0 THEN << >>
    ELSE IF Len(lines) = 1 THEN Join(lines[1])
    ELSE Join(lines[1]) \o <<NL>> \o RenderLines(Tail(lines))

RenderFile(lines, finalNewline) ==
    RenderLines(lines) \o (IF finalNewline THEN <<NL>> ELSE << >>)

\* ------------------------------------------------- generate_hierarchy_segment
\* The dict segmented_parent_child is a sequence of entries in insertion
\* order (dict keys iterate in insertion order); each entry holds the key and
\* its set of children.
HasKey(spc, parent) == \E i \in 1..Len(spc) : spc[i].parent = parent

KeyIndex(spc, parent) == CHOOSE i \in 1..Len(spc) : spc[i].parent = parent

\* lines 91-95: add node to the parent's set, creating the set on a miss
AddChild(spc, parent, node) ==
    IF HasKey(spc, parent)
    THEN [spc EXCEPT ![KeyIndex(spc, parent)].children = @ \cup {node}]
    ELSE Append(spc, [parent |-> parent, children |-> {node}])

\* lines 88-95: the inner loop over one line's nodes, from depth d on
RECURSIVE AddLine(_, _, _)
AddLine(spc, nodes, d) ==
    IF d > Len(nodes) THEN spc
    ELSE AddLine(AddChild(spc, nodes[d - 1], nodes[d]), nodes, d + 1)

\* line 86: nodes = path[:-1].lower().split(" > ")
LineNodes(path) == Split(Lower(ChopLast(path)))

\* lines 85-95: the loop over the file's lines
RECURSIVE AddLines(_, _)
AddLines(spc, lines) ==
    IF Len(lines) = 0 THEN spc
    ELSE AddLines(AddLine(spc, LineNodes(Head(lines)), 2), Tail(lines))

\* lines 81-97
GenerateHierarchySegment(text) == AddLines(<< >>, FileLines(text))

\* list(a_set): a set of strings iterates in an order fixed by the process's
\* string hashing, not by insertion; any ordering of the set can come out,
\* and it stays the same for the life of the process.
SetIterOrders(spc) ==
    {o \in [1..Len(spc) -> UNION {Perms(spc[i].children) : i \in 1..Len(spc)}] :
        \A i \in 1..Len(spc) : o[i] \in Perms(spc[i].children)}

\* ------------------------------------------------------------- data_splitting
\* rounding that sends a tie upwards, as int(x + 0.5) would
RoundHalfUp(num, den) == (2 * num + den) \div (2 * den)

\* round(x) of Python 3 for x = num/den >= 0: to the nearest integer, a tie
\* going to the even one.  len * 0.8 and len * 0.9 are floats; the float
\* product is the exact tenth wherever the exact product is a tie
\* (5 * 0.9 == 4.5, 15 * 0.9 == 13.5) and is never a tie otherwise, so
\* rounding the exact quotient gives what the code computes (the two agree
\* for every length below 100000).
PyRound(num, den) ==
    LET q == num \div den
        r == num % den
    IN  IF 2 * r < den THEN q
        ELSE IF 2 * r > den THEN q + 1
        ELSE IF q % 2 = 0 THEN q ELSE q + 1

\* lines 180-186: the four sizes for a collection of n examples
SplitSizes(n) ==
    LET train_valid_size == PyRound(n * 8, 10)
        test_size == n - train_valid_size
        train_size == PyRound(train_valid_size * 9, 10)
        valid_size == train_valid_size - train_size
    IN  [train_valid |-> train_valid_size, test |-> test_size,
         train |-> train_size, valid |-> valid_size]

\* torch.utils.data.random_split(items, [first, second]) given the random
\* permutation perm of 1..Len(items) it drew: consecutive slices of the
\* permuted items
RandomSplit(items, first, perm) ==
    <<[i \in 1..first |-> items[perm[i]]],
      [i \in 1..(Len(items) - first) |-> items[perm[first + i]]]>>

\* lines 174-190, given the two permutations the two random_split calls drew
DataSplitting(n, perm1, perm2) ==
    LET sz == SplitSizes(n)
        s1 == RandomSplit([i \in 1..n |-> i], sz.train_valid, perm1)
        s2 == RandomSplit(s1[1], sz.train, perm2)
    IN  [train |-> s2[1], valid |-> s2[2], test |-> s1[2]]

\* ------------------------------------------------------------------- state
VARIABLES
    pc,                      \* where the program is
    disk,                    \* which cache artifacts exist under datasets/
    outcome,                 \* how the last call ended
    fault_line,              \* source line that raised, 0 if none
    cache_before,            \* disk as it was when the current/last call began
    read_table,              \* the call has read the input table
    read_tree,               \* the call has read the hierarchy file
    wrote,                   \* artifacts written by the call, in order
    dataset,                 \* rows of the table: each row's path text
    row,                     \* rows encoded so far
    segmented_parent_child,  \* parent -> set of children, in insertion order
    set_order,               \* iteration order of each parent's set
    segmented_by_hierarchy,  \* one bucket per parent
    flat_input_ids,          \* flat collection
    hierarchical_dataset,    \* per-parent split sizes
    hierarchy_tree,          \* text given to the parser when it runs alone
    split_n,                 \* size given to data_splitting when it runs alone
    split_result             \* what data_splitting returned

vars == <<pc, disk, outcome, fault_line, cache_before, read_table, read_tree,
          wrote, dataset, row, segmented_parent_child, set_order,
          segmented_by_hierarchy, flat_input_ids, hierarchical_dataset,
          hierarchy_tree, split_n, split_result>>

HIER == "hierarchical_dataset.pkl"
TRAIN == "train_set.pt"
VALID == "valid_set.pt"
TEST == "test_set.pt"
Artifacts == {HIER, TRAIN, VALID, TEST}

NoSplit == [train |-> << >>, valid |-> << >>, test |-> << >>]

\* the values every specification starts the build's variables with
NoCall ==
    /\ outcome = "none"
    /\ fault_line = 0
    /\ read_table = FALSE
    /\ read_tree = FALSE
    /\ wrote = << >>
    /\ dataset = << >>
    /\ row = 0
    /\ segmented_parent_child = << >>
    /\ set_order = << >>
    /\ segmented_by_hierarchy = << >>
    /\ flat_input_ids = << >>
    /\ hierarchical_dataset = << >>

\* ------------------------------------------------ the parser run on its own
\* node names a hierarchy line is written with
NodePool == {<<"a">>, <<"b">>, <<"c">>, <<"B">>}

\* hierarchy files: 1..MaxLines lines of 0..MaxNodes nodes each, the last
\* line with or without its newline
ParseTexts ==
    {RenderFile(lines, nl) :
        lines \in SeqsOf(SeqsOf(NodePool, 0, MaxNodes), 1, MaxLines),
        nl \in BOOLEAN}

InitParse ==
    /\ pc = "parser"
    /\ hierarchy_tree \in ParseTexts
    /\ disk = [a \in Artifacts |-> FALSE]
    /\ cache_before = [a \in Artifacts |-> FALSE]
    /\ split_n = 0
    /\ split_result = NoSplit
    /\ NoCall

\* generate_hierarchy_segment() on the file, then list() of each set
ParseAlone ==
    /\ pc = "parser"
    /\ LET spc == GenerateHierarchySegment(hierarchy_tree)
       IN  /\ segmented_parent_child' = spc
           /\ set_order' \in SetIterOrders(spc)
    /\ pc' = "parsed"
    /\ outcome' = "returned"
    /\ read_tree' = TRUE
    /\ UNCHANGED <<disk, fault_line, cache_before, read_table, wrote, dataset,
                   row, segmented_by_hierarchy, flat_input_ids,
                   hierarchical_dataset, hierarchy_tree, split_n, split_result>>

NextParse == ParseAlone

SpecParse == InitParse /\ [][NextParse]_vars

\* ---------------------------------------------- the splitter run on its own
InitSplit ==
    /\ pc = "splitter"
    /\ split_n \in 0..MaxN
    /\ split_result = NoSplit
    /\ hierarchy_tree = << >>
    /\ disk = [a \in Artifacts |-> FALSE]
    /\ cache_before = [a \in Artifacts |-> FALSE]
    /\ NoCall

\* data_splitting() on a collection of split_n examples
SplitAlone ==
    /\ pc = "splitter"
    /\ \E perm1 \in Perms(1..split_n) :
         \E perm2 \in Perms(1..SplitSizes(split_n).train_valid) :
            split_result' = DataSplitting(split_n, perm1, perm2)
    /\ pc' = "split_done"
    /\ outcome' = "returned"
    /\ UNCHANGED <<disk, fault_line, cache_before, read_table, read_tree, wrote,
                   dataset, row, segmented_parent_child, set_order,
                   segmented_by_hierarchy, flat_input_ids, hierarchical_dataset,
                   hierarchy_tree, split_n>>

NextSplit == SplitAlone

SpecSplit == InitSplit /\ [][NextSplit]_vars

\* ------------------------------------------------------- preprocessing_data
\* the hierarchy files a build may find: 0..MaxTreeLines lines out of these,
\* the last one with or without its newline
TreeLinePool ==
    {<<<<"a">>, <<"b">>>>, <<<<"a">>, <<"c">>>>, <<<<"b">>, <<"c">>>>,
     <<<<"a">>, <<"b">>, <<"c">>>>, <<<<"a">>>>}

TreeTexts ==
    {RenderFile(lines, nl) :
        lines \in SeqsOf(TreeLinePool, 0, MaxTreeLines), nl \in BOOLEAN}

\* the input tables a build may find: 0..MaxRows rows, each with one of these
\* paths (the row's number stands for its text and its token ids)
SamplePathPool ==
    {Join(<<<<"a">>, <<"b">>>>), Join(<<<<"A">>, <<"C">>>>),
     Join(<<<<"a">>, <<"b">>, <<"c">>>>), Join(<<<<"b">>>>)}

Datasets == SeqsOf(SamplePathPool, 0, MaxRows)

\* line 107: a bucket starts as the empty list []
EmptyList == [is_dict |-> FALSE, input_ids |-> << >>, hierarchical_target |-> << >>]

\* line 133: the dict a bucket becomes on its first example
EmptyDict == [is_dict |-> TRUE, input_ids |-> << >>, hierarchical_target |-> << >>]

\* list.index(x): position of x in a list that holds it
IndexOf(list, x) == CHOOSE k \in 1..Len(list) : list[k] = x

\* the vector without the assignment of line 128
AllZeros(child_of_parent, child_idx) == [i \in 1..Len(child_of_parent) |-> 0]

\* lines 127-128: [0] * len(child_of_parent) with a 1 at child_idx
HierarchicalBinary(child_of_parent, child_idx) ==
    [i \in 1..Len(child_of_parent) |-> IF i = child_idx THEN 1 ELSE 0]

\* lines 132-136: append one example to the bucket, making it a dict first
\* when it is not one ('input_ids' in [] is false, in the dict it is true)
AppendExample(bucket, token, hierarchical_binary) ==
    LET b == IF bucket.is_dict THEN bucket ELSE EmptyDict
    IN  [b EXCEPT !.input_ids = Append(@, token),
                  !.hierarchical_target = Append(@, hierarchical_binary)]

\* lines 122-136: the loop over one row's nodes, from depth d on; fault is
\* the line that raised (124: KeyError, no such parent; 125: ValueError, the
\* child is not in the parent's list) or 0
RECURSIVE EncodeRow(_, _, _, _, _, _)
EncodeRow(spc, order, buckets, nodes, token, d) ==
    IF d > Len(nodes) - 1 THEN [fault |-> 0, buckets |-> buckets]
    ELSE LET node == nodes[d]
             child == nodes[d + 1]
         IN  IF ~HasKey(spc, node) THEN [fault |-> 124, buckets |-> buckets]
             ELSE LET parent_idx == KeyIndex(spc, node)
                      child_of_parent == order[parent_idx]
                  IN  IF child \notin Range(child_of_parent)
                      THEN [fault |-> 125, buckets |-> buckets]
                      ELSE EncodeRow(spc, order,
                             [buckets EXCEPT ![parent_idx] =
                                 AppendExample(@, token,
                                     HierarchicalBinary(child_of_parent,
                                         IndexOf(child_of_parent, child)))],
                             nodes, token, d + 1)

\* a gate that asks for the hierarchical artifact as well
CacheHitAlsoNeedsHierarchical(d) == d[TRAIN] /\ d[VALID] /\ d[TEST] /\ d[HIER]

\* line 56: the three flat artifacts exist
CacheHit(d) == d[TRAIN] /\ d[VALID] /\ d[TEST]

\* a build that writes the hierarchical artifact after the flat ones
HierarchicalLast == <<TRAIN, VALID, TEST, HIER>>

\* lines 150-156: the order in which a build writes its artifacts
ArtifactOrder == <<HIER, TRAIN, VALID, TEST>>

\* the locals of preprocessing_data are gone once it returns or raises
DropLocals ==
    /\ dataset' = << >>
    /\ row' = 0
    /\ segmented_parent_child' = << >>
    /\ set_order' = << >>
    /\ segmented_by_hierarchy' = << >>
    /\ flat_input_ids' = << >>
    /\ hierarchical_dataset' = << >>

\* an exception leaves preprocessor(): nothing catches it
Raise(exception, line) ==
    /\ pc' = "idle"
    /\ outcome' = exception
    /\ fault_line' = line
    /\ DropLocals

alone_vars == <<hierarchy_tree, split_n, split_result>>

\* lines 55-61, 67: all three flat artifacts exist, so load and return them
PreprocessorLoad ==
    /\ pc = "idle"
    /\ CacheHit(disk)
    /\ cache_before' = disk
    /\ outcome' = "loaded"
    /\ fault_line' = 0
    /\ read_table' = FALSE
    /\ read_tree' = FALSE
    /\ wrote' = << >>
    /\ UNCHANGED <<pc, disk, dataset, row, segmented_parent_child, set_order,
                   segmented_by_hierarchy, flat_input_ids, hierarchical_dataset>>
    /\ UNCHANGED alone_vars

\* lines 55-56, 62-64: some flat artifact is missing, so enter the build
PreprocessorBuild ==
    /\ pc = "idle"
    /\ ~CacheHit(disk)
    /\ cache_before' = disk
    /\ outcome' = "none"
    /\ fault_line' = 0
    /\ read_table' = FALSE
    /\ read_tree' = FALSE
    /\ wrote' = << >>
    /\ pc' = "build"
    /\ UNCHANGED <<disk, dataset, row, segmented_parent_child, set_order,
                   segmented_by_hierarchy, flat_input_ids, hierarchical_dataset>>
    /\ UNCHANGED alone_vars

\* lines 100-103: take the table as it is now
ReadTable ==
    /\ pc = "build"
    /\ dataset' \in Datasets
    /\ read_table' = TRUE
    /\ pc' = "parse"
    /\ UNCHANGED <<disk, outcome, fault_line, cache_before, read_tree, wrote, row,
                   segmented_parent_child, set_order, segmented_by_hierarchy,
                   flat_input_ids, hierarchical_dataset>>
    /\ UNCHANGED alone_vars

\* lines 105-110: parse the hierarchy file as it is now, number the parents,
\* make one empty bucket per parent; get_max_length raises ValueError at line
\* 77 (max of an empty list) when the table has no row
ParseHierarchy ==
    /\ pc = "parse"
    /\ read_tree' = TRUE
    /\ \E text \in TreeTexts :
          LET spc == GenerateHierarchySegment(text)
          IN  IF Len(dataset) = 0
              THEN Raise("ValueError", 77)
              ELSE /\ segmented_parent_child' = spc
                   /\ set_order' \in SetIterOrders(spc)
                   /\ segmented_by_hierarchy' = [i \in 1..Len(spc) |-> EmptyList]
                   /\ pc' = "encode"
                   /\ UNCHANGED <<outcome, fault_line, dataset, row,
                                  flat_input_ids, hierarchical_dataset>>
    /\ UNCHANGED <<disk, cache_before, read_table, wrote>>
    /\ UNCHANGED alone_vars

\* lines 112-139: one turn of the loop over the rows
EncodeSample ==
    /\ pc = "encode"
    /\ row < Len(dataset)
    /\ LET nodes == Split(Lower(dataset[row + 1]))
           r == EncodeRow(segmented_parent_child, set_order,
                          segmented_by_hierarchy, nodes, row + 1, 1)
       IN  IF r.fault = 124 THEN Raise("KeyError", 124)
           ELSE IF r.fault = 125 THEN Raise("ValueError", 125)
           ELSE /\ segmented_by_hierarchy' = r.buckets
                /\ flat_input_ids' = Append(flat_input_ids, row + 1)
                /\ row' = row + 1
                /\ UNCHANGED <<pc, outcome, fault_line, dataset,
                               segmented_parent_child, set_order,
                               hierarchical_dataset>>
    /\ UNCHANGED <<disk, cache_before, read_table, read_tree, wrote>>
    /\ UNCHANGED alone_vars

\* lines 141-148: split every bucket; data['input_ids'] on a bucket that is
\* still the list [] raises TypeError at line 144
SplitBuckets ==
    /\ pc = "encode"
    /\ row = Len(dataset)
    /\ IF \E i \in 1..Len(segmented_by_hierarchy) : ~segmented_by_hierarchy[i].is_dict
       THEN Raise("TypeError", 144)
       ELSE /\ hierarchical_dataset' =
                  [i \in 1..Len(segmented_by_hierarchy) |->
                      LET sz == SplitSizes(Len(segmented_by_hierarchy[i].input_ids))
                      IN  <<sz.train, sz.valid, sz.test>>]
            /\ pc' = "write_1"
            /\ UNCHANGED <<outcome, fault_line, dataset, row, segmented_parent_child,
                           set_order, segmented_by_hierarchy, flat_input_ids>>
    /\ UNCHANGED <<disk, cache_before, read_table, read_tree, wrote>>
    /\ UNCHANGED alone_vars

\* one write of an artifact: it is persisted, or the write raises OSError and
\* leaves the artifact as it was
WriteStep(k, line, next) ==
    /\ pc = next[1]
    /\ \/ /\ disk' = [disk EXCEPT ![ArtifactOrder[k]] = TRUE]
          /\ wrote' = Append(wrote, ArtifactOrder[k])
          /\ IF next[2] = "idle"
             THEN /\ pc' = "idle"
                  /\ outcome' = "built"
                  /\ DropLocals
                  /\ UNCHANGED fault_line
             ELSE /\ pc' = next[2]
                  /\ UNCHANGED <<outcome, fault_line, dataset, row,
                                 segmented_parent_child, set_order,
                                 segmented_by_hierarchy, flat_input_ids,
                                 hierarchical_dataset>>
       \/ /\ Raise("OSError", line)
          /\ UNCHANGED <<disk, wrote>>
    /\ UNCHANGED <<cache_before, read_table, read_tree>>
    /\ UNCHANGED alone_vars

\* lines 150-151
WriteHierarchical == WriteStep(1, 150, <<"write_1", "write_2">>)

\* lines 153-154
WriteTrain == WriteStep(2, 154, <<"write_2", "write_3">>)

\* line 155
WriteValid == WriteStep(3, 155, <<"write_3", "write_4">>)

\* lines 156-158, 65, 67
WriteTest == WriteStep(4, 156, <<"write_4", "idle">>)

Next ==
    \/ PreprocessorLoad
    \/ PreprocessorBuild
    \/ ReadTable
    \/ ParseHierarchy
    \/ EncodeSample
    \/ SplitBuckets
    \/ WriteHierarchical
    \/ WriteTrain
    \/ WriteValid
    \/ WriteTest

\* any cache directory
Init ==
    /\ pc = "idle"
    /\ disk \in [Artifacts -> BOOLEAN]
    /\ cache_before = disk
    /\ hierarchy_tree = << >>
    /\ split_n = 0
    /\ split_result = NoSplit
    /\ NoCall

Spec == Init /\ [][Next]_vars

\* an empty cache directory
InitEmptyCache ==
    /\ Init
    /\ disk = [a \in Artifacts |-> FALSE]

SpecEmptyCache == InitEmptyCache /\ [][Next]_vars

\* ------------------------------------------------- properties of the parser
\* a line of the file without its newline, if it has one
LineBody(line) ==
    IF Len(line) > 0 /\ line[Len(line)] = NL THEN ChopLast(line) ELSE line

\* the adjacent (parent, child) pairs of a node list
AdjacentPairs(nodes) == {<<nodes[d], nodes[d + 1]>> : d \in 1..(Len(nodes) - 1)}

\* the pairs some line of the file, lower-cased and split on " > ", holds
FilePairs(text) ==
    UNION {AdjacentPairs(Split(Lower(LineBody(line)))) : line \in Range(FileLines(text))}

\* the (parent, child) pairs of the parsed map
MapPairs(spc) ==
    UNION {{<<spc[i].parent, c>> : c \in spc[i].children} : i \in 1..Len(spc)}

\* the text of the one-line file "a > b > c", with and without its newline
ScenarioALine == Join(<<<<"a">>, <<"b">>, <<"c">>>>)

ScenarioAMap ==
    <<[parent |-> <<"a">>, children |-> {<<"b">>}],
      [parent |-> <<"b">>, children |-> {<<"c">>}]>>

\* C3: for every hierarchy file, whether or not its final line ends with a
\* newline, the parsed map makes c a child of p exactly when some line,
\* lower-cased and split on " > ", has p immediately followed by c; the single
\* line "a > b > c" yields {a: {b}, b: {c}} with a at index 0 and b at index 1.
C3_ChildIffAdjacentOnSomeLine ==
    pc = "parsed" =>
        /\ MapPairs(segmented_parent_child) = FilePairs(hierarchy_tree)
        /\ hierarchy_tree \in {ScenarioALine, ScenarioALine \o <<NL>>}
              => segmented_parent_child = ScenarioAMap

\* the children of a parent in the order the parser first adds them
RECURSIVE FirstSeen(_, _, _)
FirstSeen(lines, parent, seen) ==
    IF Len(lines) = 0 THEN seen
    ELSE LET nodes == LineNodes(Head(lines))
             RECURSIVE Scan(_, _)
             Scan(d, acc) ==
                 IF d > Len(nodes) THEN acc
                 ELSE IF nodes[d - 1] = parent /\ nodes[d] \notin Range(acc)
                 THEN Scan(d + 1, Append(acc, nodes[d]))
                 ELSE Scan(d + 1, acc)
         IN  FirstSeen(Tail(lines), parent, Scan(2, seen))

\* C2: the index of a child in its parent's child ordering is the order in
\* which the child was first encountered under that parent while reading the
\* file top to bottom, so the ordering is a function of the file alone.
C2_ChildIndexIsFirstEncounterOrder ==
    pc = "parsed" =>
        \A i \in 1..Len(segmented_parent_child) :
            set_order[i] = FirstSeen(FileLines(hierarchy_tree),
                                     segmented_parent_child[i].parent, << >>)

\* a line with fewer than two nodes, or empty
Malformed(line) ==
    LET body == LineBody(line)
    IN  Len(body) = 0 \/ Len(Split(body)) < 2

\* C9: parsing fails with MalformedHierarchyError whenever some line has fewer
\* than two nodes after splitting or is empty; such a line is never accepted.
C9_MalformedLineIsRejected ==
    (pc = "parsed" /\ \E line \in Range(FileLines(hierarchy_tree)) : Malformed(line))
        => outcome = "MalformedHierarchyError"

\* ----------------------------------------------- properties of the splitter
\* k is num/den rounded to the nearest integer, a tie going to the even one
IsRounded(k, num, den) ==
    LET twice == 2 * (k * den - num)
        dist == IF twice < 0 THEN 0 - twice ELSE twice
    IN  dist < den \/ (dist = den /\ k % 2 = 0)

NoRepeats(s) == Cardinality(Range(s)) = Len(s)

\* C8: data_splitting partitions the N indices into three pairwise disjoint
\* parts covering all N, of sizes train+valid = round(0.8 N), test = N minus
\* that, train = round(0.9 (train+valid)), valid = the rest; N = 100 gives
\* 72, 8 and 20, and a part of size zero is returned without error.
C8_SplitIsPartitionWithRoundedSizes ==
    /\ pc = "split_done" =>
          LET r == split_result
              tv == Len(r.train) + Len(r.valid)
          IN  /\ outcome = "returned"
              /\ NoRepeats(r.train) /\ NoRepeats(r.valid) /\ NoRepeats(r.test)
              /\ Range(r.train) \cap Range(r.valid) = {}
              /\ Range(r.train) \cap Range(r.test) = {}
              /\ Range(r.valid) \cap Range(r.test) = {}
              /\ Range(r.train) \cup Range(r.valid) \cup Range(r.test) = 1..split_n
              /\ IsRounded(tv, 8 * split_n, 10)
              /\ Len(r.test) = split_n - tv
              /\ IsRounded(Len(r.train), 9 * tv, 10)
    /\ SplitSizes(100).train = 72
    /\ SplitSizes(100).valid = 8
    /\ SplitSizes(100).test = 20

\* a split of six examples: five for train+valid, of which 4.5 rounds to four
C8_Witness ==
    /\ pc = "split_done"
    /\ split_n = 6
    /\ Len(split_result.train) = 4
    /\ Len(split_result.valid) = 1
    /\ Len(split_result.test) = 1

\* ------------------------------------------------- properties of the build
\* C1: every hierarchical one-hot appended to a parent's bucket has as many
\* entries as the parser recorded children for that parent, and exactly one
\* of them is 1, the others 0; so for every example of every bucket, after
\* any number of rows.
C1_OneHotSizedToChildrenWithSingleOne ==
    \A i \in 1..Len(segmented_by_hierarchy) :
        LET b == segmented_by_hierarchy[i]
        IN  /\ Len(b.input_ids) = Len(b.hierarchical_target)
            /\ \A k \in 1..Len(b.hierarchical_target) :
                  LET v == b.hierarchical_target[k]
                  IN  /\ Len(v) = Cardinality(segmented_parent_child[i].children)
                      /\ Cardinality({j \in 1..Len(v) : v[j] = 1}) = 1
                      /\ \A j \in 1..Len(v) : v[j] \in {0, 1}

\* two rows have gone into the bucket of a parent with two children, one
\* under each child
C1_Witness ==
    \E i \in 1..Len(segmented_by_hierarchy) :
        LET t == segmented_by_hierarchy[i].hierarchical_target
        IN  /\ Len(t) = 2
            /\ Len(t[1]) = 2
            /\ t[1] # t[2]

\* a parent of the hierarchy that no example went to
Untouched(i) == Len(segmented_by_hierarchy[i].input_ids) = 0

\* C4: when the hierarchy declares a parent that no row's path passes
\* through, the build still gets through the splitting of the buckets, with
\* one entry per parent in parent order, the untouched parent's being empty.
C4_UntouchedParentStillSplits ==
    [][(/\ pc = "encode"
        /\ row = Len(dataset)
        /\ \E i \in 1..Len(segmented_by_hierarchy) : Untouched(i))
       => (/\ pc' = "write_1"
           /\ Len(hierarchical_dataset') = Len(segmented_parent_child)
           /\ \A i \in 1..Len(segmented_by_hierarchy) :
                 Untouched(i) => hierarchical_dataset'[i] = <<0, 0, 0>>)]_vars

\* the row about to be encoded has an adjacent pair the parsed map lacks
NextRowMismatch ==
    \E pair \in AdjacentPairs(Split(Lower(dataset[row + 1]))) :
        pair \notin MapPairs(segmented_parent_child)

\* C5: a row whose path has an adjacent pair (x, y) that the parsed hierarchy
\* does not record makes the run fail with HierarchyMismatchError, not with a
\* generic lookup fault, and the row is not skipped or mis-encoded.
C5_MismatchRaisesHierarchyMismatchError ==
    [][(pc = "encode" /\ row < Len(dataset) /\ NextRowMismatch)
       => outcome' = "HierarchyMismatchError"]_vars

\* C6: a call that starts with all three flat artifacts present loads and
\* returns them and does not enter the build: it reads neither the table nor
\* the hierarchy file and writes no artifact, whether or not the hierarchical
\* artifact exists.
C6_CacheHitNeverBuilds ==
    [][(pc = "idle" /\ disk[TRAIN] /\ disk[VALID] /\ disk[TEST])
       => (/\ pc' = "idle"
           /\ outcome' = "loaded"
           /\ disk' = disk
           /\ read_table' = FALSE
           /\ read_tree' = FALSE
           /\ wrote' = << >>)]_vars

\* a call has loaded the flat artifacts while the hierarchical one is absent
C6_Witness ==
    /\ pc = "idle"
    /\ outcome = "loaded"
    /\ disk[TRAIN] /\ disk[VALID] /\ disk[TEST]
    /\ ~disk[HIER]

\* C7: a run that fails, at whatever step, leaves on disk exactly the
\* artifacts that were there before it began.
C7_FailedRunLeavesCacheAsItWas ==
    (pc = "idle" /\ outcome \in {"KeyError", "ValueError", "TypeError", "OSError"})
        => disk = cache_before

IsPrefix(s, t) == Len(s) <= Len(t) /\ \A k \in 1..Len(s) : s[k] = t[k]

\* C10: a build writes the hierarchical artifact before any flat one and the
\* flat ones in the order train, valid, test; so, from an empty cache
\* directory and with builds that may abort at any step, whenever all three
\* flat artifacts exist the hierarchical one exists too.
C10_FlatArtifactsImplyHierarchical ==
    /\ IsPrefix(wrote, <<"hierarchical_dataset.pkl", "train_set.pt",
                         "valid_set.pt", "test_set.pt">>)
    /\ (disk[TRAIN] /\ disk[VALID] /\ disk[TEST]) => disk[HIER]

\* a build has run to its end and written all four
C10_Witness ==
    /\ pc = "idle"
    /\ outcome = "built"
    /\ Len(wrote) = 4
    /\ \A a \in Artifacts : disk[a]

====
